---------------------------- MODULE Spec2Model ----------------------------
(***************************************************************************)
(* A model of sysmon.py: the three samplers get_cpu_utilisation,           *)
(* get_network_interface_traffic and get_memory_usage, and print_stats,    *)
(* which calls them and prints the report.                                 *)
(*                                                                         *)
(* The text of a /proc file is modelled after whitespace splitting: a line *)
(* is the sequence of its tokens (what line.split() returns) and a token   *)
(* is a string.  Numbers are parsed from their decimal digits.  Python     *)
(* floats are modelled as exact fractions <<numerator, denominator>>.      *)
(***************************************************************************)
EXTENDS Integers, Sequences, FiniteSets, TLC

VARIABLES
    pc,                  \* position of the run inside print_stats and the sampler it called
    network_adaptor,     \* print_stats' argument (opts.adaptor)
    kernel,              \* current content of the /proc source the running sampler has open
    handles,             \* number of open file objects per /proc source
    err,                 \* the exception that ended the run, or "none"
    stdout,              \* what print() has written
    log,                 \* the I/O calls made so far, in order
    idle_reading_1, total_reading_1, idle_reading_2, total_reading_2,
    cpu_utilisation,     \* locals of get_cpu_utilisation
    interface_reading_1, interface_reading_2, bytes_per_seconds,
                         \* locals of get_network_interface_traffic
    memory_usage,        \* local of get_memory_usage
    mem_seen,            \* the (MemTotal, MemFree) pair each get_memory_usage call parsed
    ps                   \* locals of print_stats

vars == <<pc, network_adaptor, kernel, handles, err, stdout, log,
          idle_reading_1, total_reading_1, idle_reading_2, total_reading_2,
          cpu_utilisation, interface_reading_1, interface_reading_2,
          bytes_per_seconds, memory_usage, mem_seen, ps>>

cpu_locals == <<idle_reading_1, total_reading_1, idle_reading_2, total_reading_2,
                cpu_utilisation>>
net_locals == <<interface_reading_1, interface_reading_2, bytes_per_seconds>>

\* Bounds of the model.
MaxTick  == 1      \* largest generated CPU counter value
MaxKb    == 1      \* largest generated MemTotal value
MaxBytes == 1      \* largest generated interface counter value

None == "None"     \* an unbound local / no content

STAT    == "/proc/stat"
DEV     == "/proc/net/dev"
MEMINFO == "/proc/meminfo"
Sources == {STAT, DEV, MEMINFO}

-----------------------------------------------------------------------------
(* Text and numbers.                                                       *)

Digit == <<"0", "1", "2", "3", "4", "5", "6", "7", "8", "9">>

\* The decimal text of a natural number, as the kernel prints a counter.
RECURSIVE Str(_)
Str(n) == IF n < 10 THEN Digit[n + 1] ELSE Str(n \div 10) \o Digit[(n % 10) + 1]

CharAt(s, i) == SubSeq(s, i, i)

IsNumeral(tok) ==
    /\ Len(tok) > 0
    /\ \A i \in 1..Len(tok) : \E d \in 1..10 : CharAt(tok, i) = Digit[d]

DigitValue(c) == (CHOOSE d \in 1..10 : Digit[d] = c) - 1

\* int(tok) / float(tok) of a token that IsNumeral.
RECURSIVE NumeralValue(_)
NumeralValue(tok) ==
    IF Len(tok) = 1 THEN DigitValue(tok)
    ELSE 10 * NumeralValue(SubSeq(tok, 1, Len(tok) - 1)) + DigitValue(CharAt(tok, Len(tok)))

\* re.search(pattern, text) for a pattern without regular-expression metacharacters.
Search(pattern, text) ==
    \E i \in 1..(Len(text) - Len(pattern) + 1) :
        SubSeq(text, i, i + Len(pattern) - 1) = pattern

\* re.search(pattern, line) on a line given by its tokens: the pattern holds no
\* whitespace, so it is found inside one token or not at all.
SearchLine(pattern, line) == \E k \in 1..Len(line) : Search(pattern, line[k])

\* Python's list[k] (k >= 0) on a TLA+ sequence.
HasItem(list, k) == k < Len(list)
Item(list, k) == list[k + 1]

RECURSIVE GCD(_, _)
GCD(a, b) == IF b = 0 THEN a ELSE GCD(b, a % b)
Abs(a) == IF a < 0 THEN -a ELSE a

\* The float n/d (d # 0) as a fraction in lowest terms with a positive denominator.
Frac(n, d) ==
    LET g == GCD(Abs(n), Abs(d))
        s == IF d < 0 THEN -1 ELSE 1
    IN  <<(s * n) \div g, (s * d) \div g>>

-----------------------------------------------------------------------------
(* Exceptions and file objects.                                            *)

Opened(h, src) == [h EXCEPT ![src] = @ + 1]
Closed(h, src) == [h EXCEPT ![src] = @ - 1]

\* A function's file object going out of scope without f.close(): whether the
\* interpreter reclaims it then is up to the implementation.
Dropped(h, src) == {h, Closed(h, src)}

NoLocals ==
    /\ idle_reading_1' = None /\ total_reading_1' = None
    /\ idle_reading_2' = None /\ total_reading_2' = None
    /\ cpu_utilisation' = None
    /\ interface_reading_1' = None /\ interface_reading_2' = None
    /\ bytes_per_seconds' = None
    /\ memory_usage' = None

NoReport == << >>

\* An exception raised while the running function holds (`open`) a file object
\* on src.  Nothing in sysmon.py catches it: it leaves the sampler and print_stats
\* and ends the program with a traceback, in which pc and the locals stay as they
\* were.
Raise(e, src, open) ==
    /\ err' = e
    /\ handles' \in (IF open THEN Dropped(handles, src) ELSE {handles})
    /\ UNCHANGED <<pc, network_adaptor, kernel, stdout, log, cpu_locals, net_locals,
                   memory_usage, mem_seen, ps>>

Running == err = "none"

-----------------------------------------------------------------------------
(* /proc/stat and get_cpu_utilisation.                                     *)

CpuLine(user, nice, system, idle, iowait) ==
    <<"cpu", Str(user), Str(nice), Str(system), Str(idle), Str(iowait), "0", "0">>

\* First lines /proc/stat can show: generated user and idle counters, the two
\* lines of the documented example, and damaged ones (an empty file, a truncated line, a
\* line cut after the idle field, a non-numeric field).
StatLines ==
    {CpuLine(u, 1, 2, i, 3) : u \in 0..MaxTick, i \in 0..MaxTick}
    \cup {<<"cpu", "100", "0", "100", "700", "100", "0", "0", "0", "0", "0">>,
          <<"cpu", "120", "0", "120", "740", "120", "0", "0", "0", "0", "0">>}
    \cup {<< >>, <<"cpu", "1", "0">>, <<"cpu", "1", "0", "1", "2">>,
          <<"cpu", "1", "0", "x", "2", "0">>, <<"cpu", "1", "0", "1", "-", "0">>}

\* A mutant of CpuReading: the idle reading is taken one field early (system).
CpuReadingIdxSlip(cpu_stats) ==
    IF ~HasItem(cpu_stats, 4) THEN [err |-> "IndexError"]
    ELSE IF ~IsNumeral(Item(cpu_stats, 3)) THEN [err |-> "ValueError"]
    ELSE IF \E k \in 1..4 : ~IsNumeral(Item(cpu_stats, k)) THEN [err |-> "ValueError"]
    ELSE IF ~HasItem(cpu_stats, 5) THEN [err |-> "IndexError"]
    ELSE IF ~IsNumeral(Item(cpu_stats, 5)) THEN [err |-> "ValueError"]
    ELSE [err  |-> "none",
          idle |-> NumeralValue(Item(cpu_stats, 3)),
          total |-> NumeralValue(Item(cpu_stats, 1)) + NumeralValue(Item(cpu_stats, 2))
                    + NumeralValue(Item(cpu_stats, 3)) + NumeralValue(Item(cpu_stats, 4))
                    + NumeralValue(Item(cpu_stats, 5))]

\* Lines 30-33 (and 40-43): the idle and total reading of one first line, or the
\* exception its parsing raises, in the order the expressions are evaluated.
CpuReading(cpu_stats) ==
    IF ~HasItem(cpu_stats, 4) THEN [err |-> "IndexError"]
    ELSE IF ~IsNumeral(Item(cpu_stats, 4)) THEN [err |-> "ValueError"]
    ELSE IF \E k \in 1..4 : ~IsNumeral(Item(cpu_stats, k)) THEN [err |-> "ValueError"]
    ELSE IF ~HasItem(cpu_stats, 5) THEN [err |-> "IndexError"]
    ELSE IF ~IsNumeral(Item(cpu_stats, 5)) THEN [err |-> "ValueError"]
    ELSE [err  |-> "none",
          idle |-> NumeralValue(Item(cpu_stats, 4)),
          total |-> NumeralValue(Item(cpu_stats, 1)) + NumeralValue(Item(cpu_stats, 2))
                    + NumeralValue(Item(cpu_stats, 3)) + NumeralValue(Item(cpu_stats, 4))
                    + NumeralValue(Item(cpu_stats, 5))]

\* A mutant of Utilisation: a zero total delta is answered with 0 instead of
\* being left to the division.
UtilisationZeroGuard(i1, t1, i2, t2) ==
    IF t2 - t1 = 0 THEN [err |-> "none", value |-> <<0, 1>>]
    ELSE [err |-> "none", value |-> Frac((t2 - t1) - (i2 - i1), t2 - t1)]

\* Line 48: 1 - (idle_reading_2 - idle_reading_1) / (total_reading_2 - total_reading_1);
\* a float division by zero raises ZeroDivisionError.
Utilisation(i1, t1, i2, t2) ==
    IF t2 - t1 = 0 THEN [err |-> "ZeroDivisionError"]
    ELSE [err |-> "none", value |-> Frac((t2 - t1) - (i2 - i1), t2 - t1)]

\* Line 27: open('/proc/stat', 'r').
CpuOpen ==
    /\ Running /\ pc = "cpu_open"
    /\ \/ /\ handles' = Opened(handles, STAT)
          /\ kernel' \in StatLines
          /\ pc' = "cpu_read1"
          /\ log' = Append(log, <<"open", STAT>>)
          /\ UNCHANGED <<network_adaptor, err, stdout, cpu_locals, net_locals,
                         memory_usage, mem_seen, ps>>
       \/ Raise("IOError", STAT, FALSE)

\* Lines 30-33: the first reading.
CpuRead1 ==
    /\ Running /\ pc = "cpu_read1"
    /\ LET r == CpuReading(kernel) IN
        IF r.err # "none" THEN Raise(r.err, STAT, TRUE)
        ELSE /\ idle_reading_1' = r.idle
             /\ total_reading_1' = r.total
             /\ pc' = "cpu_sleep"
             /\ log' = Append(log, <<"read", STAT>>)
             /\ UNCHANGED <<network_adaptor, kernel, handles, err, stdout,
                            idle_reading_2, total_reading_2, cpu_utilisation,
                            net_locals, memory_usage, mem_seen, ps>>

\* A mutant of Window: the wait is left out.
WindowNoSleep(src) == <<<<"seek", src>>>>

\* What one sampling window does between its two readings: lines 36-37 (73-74),
\* time.sleep(sleep_time) then f.seek(0).
Window(src) == <<<<"sleep", src>>, <<"seek", src>>>>

\* Lines 36-37: the counters move on while the sampler sleeps.
CpuSleep ==
    /\ Running /\ pc = "cpu_sleep"
    /\ kernel' \in StatLines
    /\ pc' = "cpu_read2"
    /\ log' = log \o Window(STAT)
    /\ UNCHANGED <<network_adaptor, handles, err, stdout, cpu_locals, net_locals,
                   memory_usage, mem_seen, ps>>

\* Lines 40-44: the second reading, then f.close().
CpuRead2 ==
    /\ Running /\ pc = "cpu_read2"
    /\ LET r == CpuReading(kernel) IN
        IF r.err # "none" THEN Raise(r.err, STAT, TRUE)
        ELSE /\ idle_reading_2' = r.idle
             /\ total_reading_2' = r.total
             /\ handles' = Closed(handles, STAT)
             /\ pc' = "cpu_calc"
             /\ log' = log \o <<<<"read", STAT>>, <<"close", STAT>>>>
             /\ UNCHANGED <<network_adaptor, kernel, err, stdout,
                            idle_reading_1, total_reading_1, cpu_utilisation,
                            net_locals, memory_usage, mem_seen, ps>>

\* Line 48.
CpuCalc ==
    /\ Running /\ pc = "cpu_calc"
    /\ LET u == Utilisation(idle_reading_1, total_reading_1,
                            idle_reading_2, total_reading_2) IN
        IF u.err # "none" THEN Raise(u.err, STAT, FALSE)
        ELSE /\ cpu_utilisation' = u.value
             /\ pc' = "cpu_return"
             /\ UNCHANGED <<network_adaptor, kernel, handles, err, stdout, log,
                            idle_reading_1, total_reading_1, idle_reading_2,
                            total_reading_2, net_locals, memory_usage, mem_seen, ps>>

\* Lines 49 and 119: return cpu_utilisation; print_stats keeps it times 100.
CpuReturn ==
    /\ Running /\ pc = "cpu_return"
    /\ ps' = [ps EXCEPT !.cpu_utilisation =
                  Frac(100 * cpu_utilisation[1], cpu_utilisation[2])]
    /\ pc' = "mem1_open"
    /\ kernel' = None
    /\ NoLocals
    /\ UNCHANGED <<network_adaptor, handles, err, stdout, log, mem_seen>>

-----------------------------------------------------------------------------
(* /proc/meminfo and get_memory_usage.                                     *)

MemTable(total, free) ==
    << <<"MemTotal:", Str(total), "kB">>,
       <<"MemFree:", Str(free), "kB">>,
       <<"MemAvailable:", "9", "kB">>,
       <<"SwapTotal:", "8", "kB">>,
       <<"SwapFree:", "7", "kB">> >>

\* Contents /proc/meminfo can show: generated figures (free <= total), one of
\* realistic size, and damaged ones (an empty file, no MemTotal line, no MemFree
\* line, a line without its value, a non-numeric value).
MemTables ==
    {MemTable(p[1], p[2]) : p \in {q \in (1..MaxKb) \X (0..MaxKb) : q[2] <= q[1]}}
    \cup {MemTable(8000, 3000)}
    \cup {<< >>,
          << <<"MemFree:", "1", "kB">>, <<"SwapTotal:", "8", "kB">> >>,
          << <<"MemTotal:", "2", "kB">>, <<"SwapFree:", "7", "kB">> >>,
          << <<"MemTotal:">>, <<"MemFree:", "1", "kB">> >>,
          << <<"MemTotal:", "2", "kB">>, <<"MemFree:">> >>,
          << <<"MemTotal:", "2", "kB">>, <<"MemFree:", "x", "kB">> >>}

\* A mutant of LastMatch: the scan stops at the first matching line.
RECURSIVE FirstMatch(_, _, _)
FirstMatch(pattern, lines, found) ==
    IF lines = << >> THEN found
    ELSE IF SearchLine(pattern, Head(lines)) THEN [bound |-> TRUE, tokens |-> Head(lines)]
    ELSE FirstMatch(pattern, Tail(lines), found)

\* The loops of lines 67-69, 78-80 and 101-105: every line is tested in file
\* order and a matching line overwrites what an earlier one assigned.
RECURSIVE LastMatch(_, _, _)
LastMatch(pattern, lines, found) ==
    IF lines = << >> THEN found
    ELSE LastMatch(pattern, Tail(lines),
                   IF SearchLine(pattern, Head(lines))
                   THEN [bound |-> TRUE, tokens |-> Head(lines)]
                   ELSE found)

Unbound == [bound |-> FALSE]

\* int(list[k]), or the exception it raises.
IntItem(list, k) ==
    IF ~HasItem(list, k) THEN [err |-> "IndexError"]
    ELSE IF ~IsNumeral(Item(list, k)) THEN [err |-> "ValueError"]
    ELSE [err |-> "none", value |-> NumeralValue(Item(list, k))]

\* A mutant of MemoryUsage: memory in use is the total itself.
MemoryUsageNoSub(memory_stats) ==
    LET total_memory == LastMatch("MemTotal:", memory_stats, Unbound)
        free_memory  == LastMatch("MemFree", memory_stats, Unbound)
    IN  IF ~total_memory.bound THEN [err |-> "UnboundLocalError"]
        ELSE IF IntItem(total_memory.tokens, 1).err # "none"
             THEN [err |-> IntItem(total_memory.tokens, 1).err]
        ELSE IF ~free_memory.bound THEN [err |-> "UnboundLocalError"]
        ELSE IF IntItem(free_memory.tokens, 1).err # "none"
             THEN [err |-> IntItem(free_memory.tokens, 1).err]
        ELSE [err |-> "none",
              memory_in_use |-> IntItem(total_memory.tokens, 1).value,
              free_memory   |-> IntItem(free_memory.tokens, 1).value,
              total         |-> IntItem(total_memory.tokens, 1).value]

\* Lines 100-109: the dictionary get_memory_usage builds (with the MemTotal value
\* it read, for mem_seen), or the exception raised on the way.
MemoryUsage(memory_stats) ==
    LET total_memory == LastMatch("MemTotal:", memory_stats, Unbound)
        free_memory  == LastMatch("MemFree", memory_stats, Unbound)
    IN  IF ~total_memory.bound THEN [err |-> "UnboundLocalError"]
        ELSE IF IntItem(total_memory.tokens, 1).err # "none"
             THEN [err |-> IntItem(total_memory.tokens, 1).err]
        ELSE IF ~free_memory.bound THEN [err |-> "UnboundLocalError"]
        ELSE IF IntItem(free_memory.tokens, 1).err # "none"
             THEN [err |-> IntItem(free_memory.tokens, 1).err]
        ELSE [err |-> "none",
              memory_in_use |-> IntItem(total_memory.tokens, 1).value
                                - IntItem(free_memory.tokens, 1).value,
              free_memory   |-> IntItem(free_memory.tokens, 1).value,
              total         |-> IntItem(total_memory.tokens, 1).value]

MemPc(k, at) == IF k = 1 THEN "mem1_" \o at ELSE "mem2_" \o at

\* Line 98: open('/proc/meminfo', 'r'), in the call of line 120 (k = 1) or of
\* line 121 (k = 2).
MemOpen(k) ==
    /\ Running /\ pc = MemPc(k, "open")
    /\ \/ /\ handles' = Opened(handles, MEMINFO)
          /\ kernel' \in MemTables
          /\ pc' = MemPc(k, "read")
          /\ log' = Append(log, <<"open", MEMINFO>>)
          /\ UNCHANGED <<network_adaptor, err, stdout, cpu_locals, net_locals,
                         memory_usage, mem_seen, ps>>
       \/ Raise("IOError", MEMINFO, FALSE)

\* Lines 100-109.
MemRead(k) ==
    /\ Running /\ pc = MemPc(k, "read")
    /\ LET r == MemoryUsage(kernel) IN
        IF r.err # "none" THEN Raise(r.err, MEMINFO, TRUE)
        ELSE /\ memory_usage' = [memory_in_use |-> r.memory_in_use,
                                 free_memory |-> r.free_memory]
             /\ mem_seen' = Append(mem_seen, [total |-> r.total, free |-> r.free_memory])
             /\ pc' = MemPc(k, "return")
             /\ log' = Append(log, <<"read", MEMINFO>>)
             /\ UNCHANGED <<network_adaptor, kernel, handles, err, stdout,
                            cpu_locals, net_locals, ps>>

\* Line 110, return memory_usage, with no f.close() before it; then line 120,
\* which keeps memory_in_use / 1000.0, or line 121, which keeps free_memory / 1000.0.
MemReturn(k) ==
    /\ Running /\ pc = MemPc(k, "return")
    /\ ps' = IF k = 1
             THEN [ps EXCEPT !.memory_used = Frac(memory_usage.memory_in_use, 1000)]
             ELSE [ps EXCEPT !.free_memory = Frac(memory_usage.free_memory, 1000)]
    /\ pc' = IF k = 1 THEN "mem2_open" ELSE "net_open"
    /\ handles' \in Dropped(handles, MEMINFO)
    /\ kernel' = None
    /\ NoLocals
    /\ UNCHANGED <<network_adaptor, err, stdout, log, mem_seen>>

-----------------------------------------------------------------------------
(* /proc/net/dev and get_network_interface_traffic.                        *)

DevHeader1 == <<"Inter-|", "Receive", "|", "Transmit">>
DevHeader2 ==
    <<"face", "|bytes", "packets", "errs", "drop", "fifo", "frame", "compressed",
      "multicast|bytes", "packets", "errs", "drop", "fifo", "colls", "carrier",
      "compressed">>

\* One interface line: "<name>:" then the counters; `counter` is the one at
\* index 9 of the split line.
NetLine(name, counter) ==
    <<name \o ":", "5", "3", "0", "0", "0", "0", "0", "0", Str(counter), "4">>

DevTable(lines) == <<DevHeader1, DevHeader2>> \o lines

\* Contents /proc/net/dev can show: "eth0" after "lo", and before or after
\* "eth01", with generated counters; the documented example (1000, then
\* 1500); "lo" alone; a table of ten lines; and damaged ones (an "eth0" line cut
\* short, a non-numeric counter).
DevTables ==
    UNION {{DevTable(<<NetLine("lo", 7), NetLine("eth0", b)>>),
            DevTable(<<NetLine("eth0", b), NetLine("eth01", b + 2)>>),
            DevTable(<<NetLine("eth01", b + 2), NetLine("eth0", b)>>)} :
           b \in 0..MaxBytes}
    \cup {DevTable(<<NetLine("lo", 7), NetLine("eth0", 1000)>>),
          DevTable(<<NetLine("lo", 7), NetLine("eth0", 1500)>>),
          DevTable(<<NetLine("lo", 7)>>),
          DevTable(<<NetLine("lo", 7), NetLine("eth0", 1), NetLine("eth01", 3),
                     NetLine("br0", 6), NetLine("tun0", 6), NetLine("tun1", 6),
                     NetLine("tun2", 6), NetLine("tun3", 6)>>)}
    \cup {DevTable(<<NetLine("lo", 7), <<"eth0:", "5", "3">> >>),
          DevTable(<<NetLine("lo", 7),
                     <<"eth0:", "5", "3", "0", "0", "0", "0", "0", "0", "x", "4">> >>)}

\* Lines 66-70 (and 77-81): network_stats starts as the list of the lines and
\* becomes the tokens of a matching line, so int(network_stats[9]) is token 9 of
\* the last matching line or, when no line matched, int() of the tenth line.
InterfaceReading(interface, lines) ==
    LET found == LastMatch(interface, lines, Unbound) IN
    IF found.bound THEN IntItem(found.tokens, 9)
    ELSE IF ~HasItem(lines, 9) THEN [err |-> "IndexError"]
    ELSE IF Len(Item(lines, 9)) = 1 /\ IsNumeral(Item(lines, 9)[1])
         THEN [err |-> "none", value |-> NumeralValue(Item(lines, 9)[1])]
    ELSE [err |-> "ValueError"]

\* A mutant of Traffic: the operands are exchanged.
TrafficReversed(reading_1, reading_2) == reading_1 - reading_2

\* Line 87.
Traffic(reading_1, reading_2) == reading_2 - reading_1

\* Line 63: open('/proc/net/dev', 'r').
NetOpen ==
    /\ Running /\ pc = "net_open"
    /\ \/ /\ handles' = Opened(handles, DEV)
          /\ kernel' \in DevTables
          /\ pc' = "net_read1"
          /\ log' = Append(log, <<"open", DEV>>)
          /\ UNCHANGED <<network_adaptor, err, stdout, cpu_locals, net_locals,
                         memory_usage, mem_seen, ps>>
       \/ Raise("IOError", DEV, FALSE)

\* Lines 66-70: the first reading.
NetRead1 ==
    /\ Running /\ pc = "net_read1"
    /\ LET r == InterfaceReading(network_adaptor, kernel) IN
        IF r.err # "none" THEN Raise(r.err, DEV, TRUE)
        ELSE /\ interface_reading_1' = r.value
             /\ pc' = "net_sleep"
             /\ log' = Append(log, <<"read", DEV>>)
             /\ UNCHANGED <<network_adaptor, kernel, handles, err, stdout, cpu_locals,
                            interface_reading_2, bytes_per_seconds, memory_usage,
                            mem_seen, ps>>

\* Lines 73-74: the counters move on while the sampler sleeps.
NetSleep ==
    /\ Running /\ pc = "net_sleep"
    /\ kernel' \in DevTables
    /\ pc' = "net_read2"
    /\ log' = log \o Window(DEV)
    /\ UNCHANGED <<network_adaptor, handles, err, stdout, cpu_locals, net_locals,
                   memory_usage, mem_seen, ps>>

\* Lines 77-83: the second reading, then f.close().
NetRead2 ==
    /\ Running /\ pc = "net_read2"
    /\ LET r == InterfaceReading(network_adaptor, kernel) IN
        IF r.err # "none" THEN Raise(r.err, DEV, TRUE)
        ELSE /\ interface_reading_2' = r.value
             /\ handles' = Closed(handles, DEV)
             /\ pc' = "net_calc"
             /\ log' = log \o <<<<"read", DEV>>, <<"close", DEV>>>>
             /\ UNCHANGED <<network_adaptor, kernel, err, stdout, cpu_locals,
                            interface_reading_1, bytes_per_seconds, memory_usage,
                            mem_seen, ps>>

\* Line 87.
NetCalc ==
    /\ Running /\ pc = "net_calc"
    /\ bytes_per_seconds' = Traffic(interface_reading_1, interface_reading_2)
    /\ pc' = "net_return"
    /\ UNCHANGED <<network_adaptor, kernel, handles, err, stdout, log, cpu_locals,
                   interface_reading_1, interface_reading_2, memory_usage, mem_seen, ps>>

\* Line 88, return bytes_per_seconds, into the argument tuple of line 125.
NetReturn ==
    /\ Running /\ pc = "net_return"
    /\ ps' = [ps EXCEPT !.network = bytes_per_seconds]
    /\ pc' = "print"
    /\ kernel' = None
    /\ NoLocals
    /\ UNCHANGED <<network_adaptor, handles, err, stdout, log, mem_seen>>

-----------------------------------------------------------------------------
(* print_stats.                                                            *)

\* '%0.2f' of a float: the number of hundredths nearest to it.
Hundredths(x) == (200 * x[1] + x[2]) \div (2 * x[2])

NoStats == [cpu_utilisation |-> None, memory_used |-> None, free_memory |-> None,
            network |-> None]

\* Lines 123-125: the one print() call, made after all four sampler calls
\* returned.  Its format string writes the percent sign as '% %' (a space flag
\* before the '%' conversion): Python 2 formats this as '%' and the report is
\* printed; Python 3 (3.11) rejects it with ValueError, "unsupported format
\* character '%'", before print() is called.  sysmon.py does not say which
\* interpreter runs it.
PrintReport ==
    /\ Running /\ pc = "print"
    /\ \/ /\ stdout' = Append(stdout, [cpu |-> Hundredths(ps.cpu_utilisation),
                                       network |-> ps.network,
                                       memory_used |-> ps.memory_used,
                                       free_memory |-> ps.free_memory])
          /\ log' = Append(log, <<"print", "stdout">>)
          /\ pc' = "done"
          /\ ps' = NoStats
          /\ UNCHANGED <<network_adaptor, kernel, handles, err, cpu_locals, net_locals,
                         memory_usage, mem_seen>>
       \/ Raise("ValueError", DEV, FALSE)

-----------------------------------------------------------------------------
\* Values of the -a option (line 133; "wlan0" is its default).
Adaptors == {"eth0", "lo", "wlan0"}

\* Lines 127-136: print_stats(opts.adaptor) is about to run.
Init ==
    /\ pc = "cpu_open"
    /\ network_adaptor \in Adaptors
    /\ kernel = None
    /\ handles = [s \in Sources |-> 0]
    /\ err = "none"
    /\ stdout = NoReport
    /\ log = << >>
    /\ idle_reading_1 = None /\ total_reading_1 = None
    /\ idle_reading_2 = None /\ total_reading_2 = None
    /\ cpu_utilisation = None
    /\ interface_reading_1 = None /\ interface_reading_2 = None
    /\ bytes_per_seconds = None
    /\ memory_usage = None
    /\ mem_seen = << >>
    /\ ps = NoStats

Next ==
    \/ CpuOpen \/ CpuRead1 \/ CpuSleep \/ CpuRead2 \/ CpuCalc \/ CpuReturn
    \/ \E k \in {1, 2} : MemOpen(k) \/ MemRead(k) \/ MemReturn(k)
    \/ NetOpen \/ NetRead1 \/ NetSleep \/ NetRead2 \/ NetCalc \/ NetReturn
    \/ PrintReport

Spec == Init /\ [][Next]_vars

-----------------------------------------------------------------------------
(* What the specification says of the sources, stated on the file content  *)
(* alone.                                                                  *)

\* The numeric fields of the aggregate CPU line: what follows the "cpu" label.
NumericFields(line) == [k \in 1..(Len(line) - 1) |-> NumeralValue(line[k + 1])]
SpecIdle(line) == NumericFields(line)[4]
SpecTotal(line) ==
    LET n == NumericFields(line) IN n[1] + n[2] + n[3] + n[4] + n[5]

\* The lines of an interface table that are the named interface's own.
OwnLines(interface, lines) ==
    {k \in 1..Len(lines) : Len(lines[k]) > 0 /\ lines[k][1] = interface \o ":"}
\* The lines the name is found in.
Matches(interface, lines) == {k \in 1..Len(lines) : SearchLine(interface, lines[k])}
Present(interface, lines) == OwnLines(interface, lines) # {}
Last(S) == CHOOSE k \in S : \A j \in S : j <= k
Counter(line) == NumeralValue(line[10])
OwnCounter(interface, lines) == Counter(lines[Last(OwnLines(interface, lines))])
OwnIsLastMatch(interface, lines) ==
    /\ Present(interface, lines)
    /\ Last(Matches(interface, lines)) \in OwnLines(interface, lines)
Related(interface, lines) == SelectSeq(lines, LAMBDA l : SearchLine(interface, l))

\* A well-formed memory table: every line is "<Label>: <value> kB", and one line
\* is labelled MemTotal: and one MemFree:.
Labelled(label, lines) == {k \in 1..Len(lines) : lines[k][1] = label}
WellFormedMem(lines) ==
    /\ \A k \in 1..Len(lines) :
          Len(lines[k]) = 3 /\ IsNumeral(lines[k][2]) /\ lines[k][3] = "kB"
    /\ Cardinality(Labelled("MemTotal:", lines)) = 1
    /\ Cardinality(Labelled("MemFree:", lines)) = 1
LabelValue(label, lines) ==
    NumeralValue(lines[CHOOSE k \in Labelled(label, lines) : TRUE][2])

Events(src) == SelectSeq(log, LAMBDA e : e[2] = src)
Sleeps == {k \in 1..Len(log) : log[k][1] = "sleep"}
WindowEvents(src) ==
    <<<<"open", src>>, <<"read", src>>, <<"sleep", src>>, <<"seek", src>>,
      <<"read", src>>, <<"close", src>>>>
ParseErrors == {"IndexError", "ValueError"}
Metrics == {"cpu", "network", "memory_used", "free_memory"}

-----------------------------------------------------------------------------
(* The claims.                                                             *)

\* C1: each CPU reading takes idle from the 4th numeric field of the first line
\* and total from the sum of the first five; with total_2 > total_1 the sampler's
\* value is 1 - (idle_2 - idle_1)/(total_2 - total_1), which lies in [0, 1]
\* whenever 0 <= idle_2 - idle_1 <= total_2 - total_1; readings 700/1000 then
\* 740/1100 give 0.60.
C1_Utilisation ==
    /\ pc = "cpu_sleep" =>
          /\ idle_reading_1 = SpecIdle(kernel)
          /\ total_reading_1 = SpecTotal(kernel)
    /\ pc \in {"cpu_calc", "cpu_return"} =>
          /\ idle_reading_2 = SpecIdle(kernel)
          /\ total_reading_2 = SpecTotal(kernel)
    /\ (pc = "cpu_return" /\ total_reading_2 > total_reading_1) =>
          LET di == idle_reading_2 - idle_reading_1
              dt == total_reading_2 - total_reading_1
          IN  /\ cpu_utilisation[2] > 0
              /\ cpu_utilisation[1] * dt = (dt - di) * cpu_utilisation[2]
              /\ (0 <= di /\ di <= dt) =>
                    (0 <= cpu_utilisation[1] /\ cpu_utilisation[1] <= cpu_utilisation[2])
              /\ (idle_reading_1 = 700 /\ total_reading_1 = 1000
                  /\ idle_reading_2 = 740 /\ total_reading_2 = 1100) =>
                    cpu_utilisation[1] * 100 = 60 * cpu_utilisation[2]

\* The documented example has been sampled: 700/1000, then 740/1100, gives 3/5.
C1_Witness ==
    /\ pc = "cpu_return"
    /\ idle_reading_1 = 700 /\ total_reading_1 = 1000
    /\ idle_reading_2 = 740 /\ total_reading_2 = 1100
    /\ cpu_utilisation = <<3, 5>>

\* C2: with equal totals in the two readings get_cpu_utilisation ends in a fatal
\* error (the ZeroDivisionError of line 48) and returns no value.
C2_DegenerateInterval ==
    /\ pc = "cpu_return" => total_reading_2 # total_reading_1
    /\ (pc = "cpu_calc" /\ ~Running) =>
          /\ err = "ZeroDivisionError"
          /\ total_reading_2 = total_reading_1
          /\ cpu_utilisation = None
          /\ ps.cpu_utilisation = None
          /\ stdout = NoReport

\* Two readings with equal totals were taken and the division has failed.
C2_Witness ==
    /\ pc = "cpu_calc" /\ err = "ZeroDivisionError"
    /\ total_reading_2 = total_reading_1
    /\ idle_reading_2 # idle_reading_1

\* C3 as amended: when the named interface's own line is the last line the name
\* is found in, each reading is the counter at index 9 of that own line, the
\* result is reading_2 - reading_1, and the lines the name is not found in change
\* nothing (readings 1000 then 1500 of "eth0" beside "lo" give 500).
C3_OwnLineDelta ==
    /\ (pc = "net_sleep" /\ OwnIsLastMatch(network_adaptor, kernel)) =>
          /\ interface_reading_1 = OwnCounter(network_adaptor, kernel)
          /\ InterfaceReading(network_adaptor, Related(network_adaptor, kernel))
                = [err |-> "none", value |-> interface_reading_1]
    /\ (pc \in {"net_calc", "net_return"} /\ OwnIsLastMatch(network_adaptor, kernel)) =>
          /\ interface_reading_2 = OwnCounter(network_adaptor, kernel)
          /\ InterfaceReading(network_adaptor, Related(network_adaptor, kernel))
                = [err |-> "none", value |-> interface_reading_2]
    /\ pc = "net_return" =>
          /\ bytes_per_seconds = interface_reading_2 - interface_reading_1
          /\ (interface_reading_1 = 1000 /\ interface_reading_2 = 1500) =>
                bytes_per_seconds = 500

\* "eth0" was read as 1000 and then, beside a "lo" line, as 1500: the result is 500.
C3_Witness ==
    /\ pc = "net_return" /\ network_adaptor = "eth0"
    /\ Present("lo", kernel) /\ OwnIsLastMatch("eth0", kernel)
    /\ interface_reading_1 = 1000 /\ interface_reading_2 = 1500
    /\ bytes_per_seconds = 500

\* C3 as stated: whenever the named interface is present in the table, each
\* reading is the counter of that interface's own line.
C3_Original ==
    /\ (pc = "net_sleep" /\ Present(network_adaptor, kernel)) =>
          interface_reading_1 = OwnCounter(network_adaptor, kernel)
    /\ (pc \in {"net_calc", "net_return"} /\ Present(network_adaptor, kernel)) =>
          interface_reading_2 = OwnCounter(network_adaptor, kernel)
    /\ pc = "net_return" =>
          bytes_per_seconds = interface_reading_2 - interface_reading_1

\* C4: when no line of the table matches the interface name, the sampler returns
\* no value and fails with an error of its own, one that a damaged line (a
\* parse error) does not raise.
C4_NotFoundIsDistinct ==
    /\ pc \in {"net_sleep", "net_calc", "net_return"} =>
          Matches(network_adaptor, kernel) # {}
    /\ (pc \in {"net_read1", "net_read2"} /\ ~Running
        /\ Matches(network_adaptor, kernel) = {}) =>
          err \notin ParseErrors

C6_ClosedOnEveryExit ==
    (~Running \/ pc \in {"mem1_open", "mem2_open", "net_open", "print", "done"}) =>
        \A s \in Sources : handles[s] = 0

\* C7: print_stats prints nothing or one complete report; when every sampler
\* call has returned the report is printed; and a run that ends in an exception
\* ends in a sampler's, with nothing printed.
C7_AllOrNothing ==
    /\ Len(stdout) <= 1
    /\ Len(stdout) = 1 =>
          /\ pc = "done" /\ Running
          /\ DOMAIN stdout[1] = Metrics
          /\ Events(STAT) = WindowEvents(STAT)
          /\ Events(DEV) = WindowEvents(DEV)
          /\ Len(mem_seen) = 2
    /\ pc = "done" => Len(stdout) = 1
    /\ ~Running => (stdout = NoReport /\ pc # "print")

\* C8: in a run of print_stats the memory sampler is called once, and the in-use
\* and the free figure of the report come from that one reading.
C8_MemorySampledOnce ==
    pc = "done" =>
        /\ Len(mem_seen) = 1
        /\ stdout[1].memory_used = Frac(mem_seen[1].total - mem_seen[1].free, 1000)
        /\ stdout[1].free_memory = Frac(mem_seen[1].free, 1000)

\* C9: in a successful run each of the CPU and the network sampler opens its
\* source, reads, waits once, seeks to the start, reads again and closes; all of
\* the CPU sampler's events come before every network event; the memory sampler
\* never waits; so there are exactly two waits.
C9_TwoSequentialWindows ==
    pc = "done" =>
        /\ Events(STAT) = WindowEvents(STAT)
        /\ Events(DEV) = WindowEvents(DEV)
        /\ \A i, j \in 1..Len(log) :
              (log[i][2] = STAT /\ log[j][2] = DEV) => i < j
        /\ \A i \in 1..Len(log) : log[i][2] = MEMINFO => log[i][1] # "sleep"
        /\ Cardinality(Sleeps) = 2

\* A run has ended with its report printed after two waits.
C9_Witness ==
    /\ pc = "done" /\ Len(stdout) = 1
    /\ Cardinality(Sleeps) = 2

\* C10: when the name is found in more than one line, each reading is the
\* counter of the last such line in table order, in the first reading and in the
\* second alike.
C10_LastMatchWins ==
    /\ (pc = "net_sleep" /\ Matches(network_adaptor, kernel) # {}) =>
          interface_reading_1
            = Counter(kernel[Last(Matches(network_adaptor, kernel))])
    /\ (pc \in {"net_calc", "net_return"} /\ Matches(network_adaptor, kernel) # {}) =>
          interface_reading_2
            = Counter(kernel[Last(Matches(network_adaptor, kernel))])

\* "eth0" was first read from an "eth01" line that follows the "eth0" line (3),
\* then from the "eth0" line that follows an "eth01" line (0).
C10_Witness ==
    /\ pc = "net_calc" /\ network_adaptor = "eth0"
    /\ kernel = DevTable(<<NetLine("eth01", 2), NetLine("eth0", 0)>>)
    /\ interface_reading_1 = 3 /\ interface_reading_2 = 0

=============================================================================
